---- MODULE Spec2Model ----
(***************************************************************************)
(* The announcements router of the High School Management System API      *)
(* (src/backend/routers/announcements.py) as a state machine.              *)
(*                                                                         *)
(* State: the announcements collection, the ObjectId generator of the     *)
(* store, the wall clock read by datetime.now(), the update requests that *)
(* have done their update_one and not yet their find_one (the id and the  *)
(* username each was called with), and the last response a handler        *)
(* produced.                                                               *)
(*                                                                         *)
(* Strings that the code compares (dates) are sequences of characters,    *)
(* compared as Python and the store compare them: by code point, a proper *)
(* prefix first.  An Optional[str] is <<>> (None) or <<s>> (the string s).*)
(***************************************************************************)
EXTENDS Integers, Sequences, FiniteSets, TLC

\* ---------------------------------------------------------------- bounds
\* insert_one calls in one run (ObjectIds handed out)
MaxAnnouncements == 2
\* the last instant the clock reaches
MaxClock == 2
\* update requests between their update_one and their find_one
MaxInflight == 1
\* hours in a day of the scaled-down calendar
HoursPerDay == 2
\* hex digits in the string form of an ObjectId (scaled down)
OidHexLen == 2

VARIABLES store, nextId, clock, inflight, resp

vars == <<store, nextId, clock, inflight, resp>>

\* ------------------------------------------------------- Optional[str]
None == <<>>

Some(s) == <<s>>

\* ------------------------------------------------------------- strings
\* The characters of the model in code point order.
CharOrder == <<"0", "1", "2", "3", "4", "5", "6", "7", "8", "9",
               "T", "a", "b", "c", "d", "e", "f", "z">>

Ord(c) == CHOOSE i \in 1..Len(CharOrder) : CharOrder[i] = c

RECURSIVE StrLess(_, _)
\* a < b on str: the first differing code point decides, a proper prefix is less
StrLess(a, b) ==
    IF b = <<>> THEN FALSE
    ELSE IF a = <<>> THEN TRUE
    ELSE IF Ord(Head(a)) < Ord(Head(b)) THEN TRUE
    ELSE IF Ord(Head(a)) > Ord(Head(b)) THEN FALSE
    ELSE StrLess(Tail(a), Tail(b))

\* a <= b on str
StrLeq(a, b) == a = b \/ StrLess(a, b)

Digit(n) == CharOrder[n + 1]

\* datetime.isoformat() of the instant t on the scaled-down calendar:
\* <day digit> "T" <hour digit>
isoformat(t) == <<Digit(t \div HoursPerDay), "T", Digit(t % HoursPerDay)>>

\* ------------------------------------------------------------ ObjectId
HexDigits == SubSeq(CharOrder, 1, 10) \o SubSeq(CharOrder, 12, 17)

IsHex(c) == \E i \in 1..Len(HexDigits) : HexDigits[i] = c

HexVal(c) == (CHOOSE i \in 1..Len(HexDigits) : HexDigits[i] = c) - 1

RECURSIVE ToHex(_, _)
ToHex(n, w) == IF w = 0 THEN <<>>
               ELSE Append(ToHex(n \div 16, w - 1), HexDigits[(n % 16) + 1])

\* str(ObjectId)
StrOid(oid) == ToHex(oid, OidHexLen)

\* ObjectId.is_valid: a hex string of the fixed width
ValidOid(s) == Len(s) = OidHexLen /\ \A i \in 1..Len(s) : IsHex(s[i])

RECURSIVE FromHex(_)
FromHex(s) == IF s = <<>> THEN 0
              ELSE 16 * FromHex(SubSeq(s, 1, Len(s) - 1)) + HexVal(s[Len(s)])

\* ObjectId(announcement_id), for a valid string
ObjectId(s) == FromHex(s)

\* -------------------------------------------------------------- inputs
\* teachers_collection: read only in this router
Teachers == {"mrodriguez"}

Usernames == Teachers \cup {"nobody"}

\* dates callers store: a full timestamp and a date-only string
EndDates == {isoformat(1), <<Digit(1)>>}

StartDates == {None, Some(<<>>), Some(isoformat(MaxClock))}

Messages == {"old"}

\* announcement ids callers send: every id the store can hand out, one it
\* never hands out, and a string that is no ObjectId
IdInputs == {StrOid(n) : n \in 1..(MaxAnnouncements + 1)} \cup {<<"z", "z">>}

\* AnnouncementCreate bodies (message, end_date and created_by are required)
CreateInputs == [message : Messages, start_date : StartDates,
                 end_date : EndDates, created_by : Usernames]

\* AnnouncementUpdate bodies (every field defaults to None): none of the
\* fields, each field alone, all of them
PatchValues == [message |-> Some("new"), start_date |-> Some(isoformat(MaxClock)),
                end_date |-> Some(<<Digit(1)>>)]

Patches == {[f \in DOMAIN PatchValues |-> IF f \in fs THEN PatchValues[f] ELSE None] :
               fs \in {{}, {"message"}, {"start_date"}, {"end_date"},
                       {"message", "start_date", "end_date"}}}

\* ------------------------------------------------------------- helpers
Ids(s) == {s[i]._id : i \in 1..Len(s)}

\* find_one({"_id": oid}) when a document matches
Find(s, oid) == s[CHOOSE i \in 1..Len(s) : s[i]._id = oid]

\* announcement["_id"] = str(announcement["_id"])
Serialise(doc) == [doc EXCEPT !._id = StrOid(doc._id)]

SerialiseAll(s) == [i \in 1..Len(s) |-> Serialise(s[i])]

NoPatch == [message |-> None, start_date |-> None, end_date |-> None]

\* what a handler was called with (username, announcement id, request body)
\* and what it answered; status 500 is the framework's answer to an exception
\* the handler does not catch; "update_one" is an update request that has
\* written and not answered yet
Response(op, status, user, id, input, body) ==
    [op |-> op, status |-> status, user |-> user, id |-> id, input |-> input,
     body |-> body]

Init ==
    /\ store = <<>>
    /\ nextId = 1
    /\ clock = 1    \* the service starts at some instant of the calendar
    /\ inflight = <<>>
    /\ resp = Response("none", 0, "", <<>>, NoPatch, <<>>)

\* time passes between requests
Tick ==
    /\ clock < MaxClock
    /\ clock' = clock + 1
    /\ resp' = Response("tick", 0, "", <<>>, NoPatch, <<>>)
    /\ UNCHANGED <<store, nextId, inflight>>

\* ------------------------------------------------------ GET /active
\* the query with $gt for $gte
EndDateMatchesGt(a, now) == a.end_date # None /\ StrLess(now, a.end_date[1])

\* the query {"end_date": {"$gte": now}}
EndDateMatches(a, now) == a.end_date # None /\ StrLeq(now, a.end_date[1])

\* the start_date filter of the loop: a falsy start_date (None, "") passes
StartDateOk(a, now) ==
    IF a.start_date # None /\ a.start_date[1] # <<>>
    THEN StrLeq(a.start_date[1], now)
    ELSE TRUE

ActiveAnnouncements(s, now) ==
    LET Queried(a) == EndDateMatches(a, now)
        Kept(a) == StartDateOk(a, now)
    IN  SelectSeq(SelectSeq(s, Queried), Kept)

get_active_announcements ==
    /\ resp' = Response("list_active", 200, "", <<>>, NoPatch,
                        SerialiseAll(ActiveAnnouncements(store, isoformat(clock))))
    /\ UNCHANGED <<store, nextId, clock, inflight>>

\* ------------------------------------------------------ GET ""
get_all_announcements(username) ==
    /\ resp' = IF username \notin Teachers
               THEN Response("list_all", 401, username, <<>>, NoPatch, "Unauthorized")
               ELSE Response("list_all", 200, username, <<>>, NoPatch, SerialiseAll(store))
    /\ UNCHANGED <<store, nextId, clock, inflight>>

\* ------------------------------------------------------ POST ""
\* announcement_doc without the optional start_date
AnnouncementDocNoStart(announcement, oid, now) ==
    [_id |-> oid,
     message |-> Some(announcement.message),
     start_date |-> None,
     end_date |-> Some(announcement.end_date),
     created_by |-> announcement.created_by,
     created_at |-> now]

\* announcement_doc, with the _id insert_one gives it
AnnouncementDoc(announcement, oid, now) ==
    [_id |-> oid,
     message |-> Some(announcement.message),
     start_date |-> announcement.start_date,
     end_date |-> Some(announcement.end_date),
     created_by |-> announcement.created_by,
     created_at |-> now]

\* an identifier taken from the size of the collection
InsertedIdByCount == Len(store) + 1

\* the ObjectId insert_one generates: never one the store handed out before
InsertedId == nextId

create_announcement(announcement) ==
    IF announcement.created_by \notin Teachers
    THEN /\ resp' = Response("create", 401, announcement.created_by, <<>>,
                             announcement, "Unauthorized")
         /\ UNCHANGED <<store, nextId, clock, inflight>>
    ELSE /\ nextId <= MaxAnnouncements
         /\ LET doc == AnnouncementDoc(announcement, InsertedId, isoformat(clock))
            IN  /\ store' = Append(store, doc)
                /\ resp' = Response("create", 200, announcement.created_by, <<>>,
                                    announcement, Serialise(doc))
         /\ nextId' = nextId + 1
         /\ UNCHANGED <<clock, inflight>>

\* ------------------------------------------------------ PUT /{id}
\* update_doc with every field of the body, None or not
UpdateDocAllFields(announcement) == {"message", "start_date", "end_date"}

\* update_doc: the fields of the body that are not None
UpdateDoc(announcement) ==
    {f \in {"message", "start_date", "end_date"} : announcement[f] # None}

\* the document replaced by update_doc (replace_one for $set): what the
\* patch does not provide is lost
ApplyReplace(doc, announcement) ==
    [f \in DOMAIN doc |->
        IF f \in UpdateDoc(announcement) THEN announcement[f]
        ELSE IF f = "_id" THEN doc[f]
        ELSE IF f = "created_by" THEN ""
        ELSE <<>>]

\* {"$set": update_doc} on one document
ApplySet(doc, announcement) ==
    [f \in DOMAIN doc |->
        IF f \in UpdateDoc(announcement) THEN announcement[f] ELSE doc[f]]

\* the $set applied to every document (an empty filter)
UpdateMany(s, oid, announcement) ==
    [i \in 1..Len(s) |-> ApplySet(s[i], announcement)]

\* update_one({"_id": oid}, {"$set": update_doc}) on the collection
UpdateOne(s, oid, announcement) ==
    [i \in 1..Len(s) |->
        IF s[i]._id = oid THEN ApplySet(s[i], announcement) ELSE s[i]]

\* the handler up to and including update_one and the matched_count test
update_announcement(announcement_id, announcement, username) ==
    LET Fail(status, detail) ==
            /\ resp' = Response("update", status, username, announcement_id,
                                announcement, detail)
            /\ UNCHANGED <<store, nextId, clock, inflight>>
    IN  IF username \notin Teachers THEN Fail(401, "Unauthorized")
        ELSE IF UpdateDoc(announcement) = {} THEN Fail(400, "No fields to update")
        ELSE IF ~ValidOid(announcement_id) THEN Fail(500, "InvalidId")
        ELSE IF ObjectId(announcement_id) \notin Ids(store)
             THEN Fail(404, "Announcement not found")
        ELSE /\ Len(inflight) < MaxInflight
             /\ store' = UpdateOne(store, ObjectId(announcement_id), announcement)
             /\ inflight' = Append(inflight, [id |-> announcement_id, user |-> username])
             /\ resp' = Response("update_one", 0, username, announcement_id,
                                 announcement, <<>>)
             /\ UNCHANGED <<nextId, clock>>

\* the rest of the handler: find_one, the _id conversion and the return
update_announcement_find(r) ==
    LET req == inflight[r]
    IN  /\ inflight' = SubSeq(inflight, 1, r - 1) \o SubSeq(inflight, r + 1, Len(inflight))
        /\ resp' = IF ObjectId(req.id) \in Ids(store)
                   THEN Response("update", 200, req.user, req.id, NoPatch,
                                 Serialise(Find(store, ObjectId(req.id))))
                   ELSE Response("update", 500, req.user, req.id, NoPatch, "TypeError")
        /\ UNCHANGED <<store, nextId, clock>>

\* ------------------------------------------------------ DELETE /{id}
\* delete_one({"_id": oid}) on the collection
DeleteOne(s, oid) ==
    LET Others(a) == a._id # oid IN SelectSeq(s, Others)

\* the handler without its teacher lookup
delete_announcement_no_auth(announcement_id, username) ==
    /\ IF ~ValidOid(announcement_id)
       THEN /\ resp' = Response("delete", 500, username, announcement_id, NoPatch,
                                "InvalidId")
            /\ store' = store
       ELSE IF ObjectId(announcement_id) \notin Ids(store)
       THEN /\ resp' = Response("delete", 404, username, announcement_id, NoPatch,
                                "Announcement not found")
            /\ store' = store
       ELSE /\ resp' = Response("delete", 200, username, announcement_id, NoPatch,
                                "Announcement deleted successfully")
            /\ store' = DeleteOne(store, ObjectId(announcement_id))
    /\ UNCHANGED <<nextId, clock, inflight>>

delete_announcement(announcement_id, username) ==
    /\ IF username \notin Teachers
       THEN /\ resp' = Response("delete", 401, username, announcement_id, NoPatch,
                                "Unauthorized")
            /\ store' = store
       ELSE IF ~ValidOid(announcement_id)
       THEN /\ resp' = Response("delete", 500, username, announcement_id, NoPatch,
                                "InvalidId")
            /\ store' = store
       ELSE IF ObjectId(announcement_id) \notin Ids(store)
       THEN /\ resp' = Response("delete", 404, username, announcement_id, NoPatch,
                                "Announcement not found")
            /\ store' = store
       ELSE /\ resp' = Response("delete", 200, username, announcement_id, NoPatch,
                                "Announcement deleted successfully")
            /\ store' = DeleteOne(store, ObjectId(announcement_id))
    /\ UNCHANGED <<nextId, clock, inflight>>

Next ==
    \/ Tick
    \/ get_active_announcements
    \/ \E username \in Usernames : get_all_announcements(username)
    \/ \E announcement \in CreateInputs : create_announcement(announcement)
    \/ \E announcement_id \in IdInputs, announcement \in Patches, username \in Usernames :
          update_announcement(announcement_id, announcement, username)
    \/ \E r \in 1..Len(inflight) : update_announcement_find(r)
    \/ \E announcement_id \in IdInputs, username \in Usernames :
          delete_announcement(announcement_id, username)

Spec == Init /\ [][Next]_vars

\* ------------------------------------------------------------- claims
Fields == {"message", "start_date", "end_date"}

Authorized(r) == r.user \in Teachers

\* the response body b is the document d with its _id as a string
Shows(b, d) ==
    /\ b._id = StrOid(d._id)
    /\ \A f \in Fields \cup {"created_by", "created_at"} : b[f] = d[f]

\* the identifiers the store has handed out that no stored announcement carries
GoneIds == (1..(nextId - 1)) \ Ids(store)

\* C1: list_active returns exactly the stored announcements whose end_date is
\* not below now and whose start_date is absent or not above now, each once.
ListActiveExact ==
    resp.op = "list_active" =>
        LET now == isoformat(clock)
            Active == {i \in 1..Len(store) :
                          /\ store[i].end_date # None
                          /\ ~StrLess(store[i].end_date[1], now)
                          /\ \/ store[i].start_date = None
                             \/ ~StrLess(now, store[i].start_date[1])}
        IN  /\ resp.status = 200
            /\ Len(resp.body) = Cardinality(Active)
            /\ \A i \in 1..Len(store) :
                   (i \in Active) <=>
                       \E k \in 1..Len(resp.body) : Shows(resp.body[k], store[i])

\* list_active has answered with one announcement left out for its start_date
\* alone, one left in with no start_date and one left in at end_date = now
ListActiveCases ==
    /\ resp.op = "list_active"
    /\ \E i \in 1..Len(store) :
          /\ StrLeq(isoformat(clock), store[i].end_date[1])
          /\ store[i].start_date # None
          /\ StrLess(isoformat(clock), store[i].start_date[1])
    /\ \E i \in 1..Len(store), k \in 1..Len(resp.body) :
          /\ store[i].start_date = None
          /\ store[i].end_date[1] = isoformat(clock)
          /\ Shows(resp.body[k], store[i])

\* the instant an ISO-8601 string of the calendar denotes: a date-only string
\* is hour 0 of its day
IsDate(s) == Len(s) = 1 /\ Ord(s[1]) <= 10

IsTimestamp(s) == Len(s) = 3 /\ Ord(s[1]) <= 10 /\ s[2] = "T" /\ Ord(s[3]) <= HoursPerDay

Instant(s) == IF IsDate(s) THEN (Ord(s[1]) - 1) * HoursPerDay
              ELSE (Ord(s[1]) - 1) * HoursPerDay + (Ord(s[3]) - 1)

\* C10: list_active returns exactly the announcements whose window, as
\* instants, contains the current instant, whatever the precision of the
\* ISO-8601 strings stored.
ListActiveChronological ==
    resp.op = "list_active" =>
        \A i \in 1..Len(store) :
            LET a == store[i]
                Iso(s) == IsDate(s) \/ IsTimestamp(s)
            IN  (Iso(a.end_date[1]) /\ (a.start_date = None \/ Iso(a.start_date[1]))) =>
                    ((\E k \in 1..Len(resp.body) : Shows(resp.body[k], a)) <=>
                        /\ clock <= Instant(a.end_date[1])
                        /\ a.start_date = None \/ Instant(a.start_date[1]) <= clock)

\* C2: list_all, create, update and delete called with a username that has no
\* teacher record answer 401 whatever else they are called with and leave the
\* collection as it was; list_active answers without any username.
UnauthorizedRejected ==
    [][/\ (resp'.op \in {"list_all", "create", "update", "delete"} /\ ~Authorized(resp'))
            => (resp'.status = 401 /\ store' = store /\ nextId' = nextId)
       /\ resp'.op = "update_one" => Authorized(resp')
       /\ (resp'.op = "list_active") => (resp'.status = 200 /\ resp'.user = "")]_vars

\* an unknown username has been refused an update with an empty patch of an
\* id that matches no announcement, with announcements stored
UnauthorizedUpdateRefused ==
    /\ resp.op = "update"
    /\ resp.status = 401
    /\ ~Authorized(resp)
    /\ resp.input = NoPatch
    /\ ValidOid(resp.id) /\ ObjectId(resp.id) \notin Ids(store)
    /\ store # <<>>

\* C3: for an authorized username, update with an empty patch answers 400
\* whether or not the id matches, update with a non-empty patch of an id that
\* matches no announcement answers 404, and neither changes the collection.
\* (inflight' = inflight: the request is answered before it writes; the
\* answers of a request that has written are C9's.)
UpdateFailures ==
    [][(resp'.op = "update" /\ Authorized(resp') /\ inflight' = inflight) =>
          /\ store' = store
          /\ resp'.input = NoPatch => resp'.status = 400
          /\ (/\ resp'.input # NoPatch
              /\ \A i \in 1..Len(store) : StrOid(store[i]._id) # resp'.id)
                => resp'.status = 404]_vars

\* C4: an authorized delete of a stored id removes that record and no other
\* and acknowledges it; an id once gone is in no later list and never stored
\* again, and deleting it again answers 404.
DeleteRemoves ==
    [][/\ (resp'.op = "delete" /\ Authorized(resp') /\ ValidOid(resp'.id)
              /\ ObjectId(resp'.id) \in Ids(store))
            => /\ resp'.status = 200
               /\ resp'.body = "Announcement deleted successfully"
               /\ Len(store') = Len(store) - 1
               /\ \A i \in 1..Len(store) :
                      (store[i]._id # ObjectId(resp'.id))
                          <=> (\E j \in 1..Len(store') : store'[j] = store[i])
       /\ \A oid \in GoneIds : oid \notin Ids(store')
       /\ (resp'.op = "delete" /\ Authorized(resp') /\ ValidOid(resp'.id)
              /\ ObjectId(resp'.id) \in GoneIds)
            => (resp'.status = 404 /\ store' = store)
       /\ (resp'.op \in {"list_all", "list_active"} /\ resp'.status = 200)
            => \A k \in 1..Len(resp'.body) : ObjectId(resp'.body[k]._id) \notin GoneIds]_vars

\* an id has been deleted a second time, with another announcement stored and
\* a new one created after the first delete
DeletedTwice ==
    /\ resp.op = "delete"
    /\ resp.status = 404
    /\ Authorized(resp)
    /\ ValidOid(resp.id)
    /\ ObjectId(resp.id) \in GoneIds
    /\ \E i \in 1..Len(store) : store[i]._id > ObjectId(resp.id)

\* C5: create by a teacher stores one new announcement with the fields given
\* and created_at the current time, and returns it with the identifier the
\* store generated; list_all by a teacher returns every stored announcement.
CreatePersists ==
    [][/\ (resp'.op = "create" /\ Authorized(resp')) =>
            /\ resp'.status = 200
            /\ Len(store') = Len(store) + 1
            /\ SubSeq(store', 1, Len(store)) = store
            /\ LET d == store'[Len(store')]
               IN  /\ d.message = Some(resp'.input.message)
                   /\ d.start_date = resp'.input.start_date
                   /\ d.end_date = Some(resp'.input.end_date)
                   /\ d.created_by = resp'.input.created_by
                   /\ d.created_at = isoformat(clock)
                   /\ d._id \notin Ids(store)
                   /\ resp'.body._id # <<>>
                   /\ Shows(resp'.body, d)
       /\ (resp'.op = "list_all" /\ Authorized(resp')) =>
            /\ resp'.status = 200
            /\ store' = store
            /\ Len(resp'.body) = Len(store)
            /\ \A i \in 1..Len(store) : Shows(resp'.body[i], store[i])]_vars

\* a second announcement, one with a start_date, has been created
CreatedSecond ==
    /\ resp.op = "create"
    /\ resp.status = 200
    /\ Len(store) = 2
    /\ resp.input.start_date # None
    /\ store[2].created_at # store[1].created_at

\* C6: the write of an update sets the fields its patch provides on the
\* record with the id, leaves its other fields and every other record as they
\* were, and the answer of a successful update is the record as stored.
UpdateApplies ==
    [][/\ (resp'.op = "update_one") =>
            /\ Len(store') = Len(store)
            /\ \E i \in 1..Len(store) : store[i]._id = ObjectId(resp'.id)
            /\ \A i \in 1..Len(store) :
                  IF store[i]._id = ObjectId(resp'.id)
                  THEN /\ \A f \in Fields :
                             store'[i][f] = IF resp'.input[f] # None
                                            THEN resp'.input[f] ELSE store[i][f]
                       /\ \A f \in DOMAIN store[i] \ Fields : store'[i][f] = store[i][f]
                  ELSE store'[i] = store[i]
       /\ (resp'.op = "update" /\ resp'.status = 200) =>
            /\ store' = store
            /\ \E i \in 1..Len(store) :
                  store[i]._id = ObjectId(resp'.id) /\ Shows(resp'.body, store[i])]_vars

\* an update that set one field of one of two announcements has answered
UpdatedOneOfTwo ==
    /\ resp.op = "update"
    /\ resp.status = 200
    /\ Len(store) = 2
    /\ resp.body.message = Some("new")
    /\ resp.body.end_date # PatchValues.end_date
    /\ \E i \in 1..Len(store) : store[i].message # Some("new")

\* C7: a stored announcement keeps its identifier, created_by and created_at
\* through every operation, and list_active and list_all change nothing stored.
CreationFieldsKept ==
    [][/\ \A j \in 1..Len(store') :
              \/ /\ store'[j]._id \notin Ids(store)
                 /\ resp'.op = "create"
              \/ /\ Cardinality({i \in 1..Len(store) : store[i]._id = store'[j]._id}) = 1
                 /\ \E i \in 1..Len(store) :
                       /\ store[i]._id = store'[j]._id
                       /\ store[i].created_by = store'[j].created_by
                       /\ store[i].created_at = store'[j].created_at
       /\ (resp'.op \in {"list_active", "list_all"}) =>
              (store' = store /\ nextId' = nextId)]_vars

\* an announcement created at an earlier instant has been updated
UpdatedLater ==
    /\ resp.op = "update_one"
    /\ \E i \in 1..Len(store) :
          /\ store[i]._id = ObjectId(resp.id)
          /\ store[i].created_at # isoformat(clock)
          /\ store[i].message = Some("new")

\* C8: every stored announcement has an end_date (and a message): a None in a
\* patch leaves the stored value as it was.
EndDatePresent ==
    \A i \in 1..Len(store) : store[i].end_date # None /\ store[i].message # None

\* a patch with no end_date has been written to an announcement
PatchedWithoutEndDate ==
    /\ resp.op = "update_one"
    /\ resp.input.end_date = None
    /\ resp.input.message = None
    /\ \E i \in 1..Len(store) :
          store[i]._id = ObjectId(resp.id) /\ store[i].start_date = PatchValues.start_date

\* C9: an authorized update with a non-empty patch either answers 404 having
\* changed nothing or answers 200 with the updated record, under every
\* interleaving of requests.
UpdateOutcomes ==
    (resp.op = "update" /\ Authorized(resp) /\ ValidOid(resp.id) /\ resp.status # 400)
        => resp.status \in {200, 404}
====
